---- MODULE Spec2Model ----
(***************************************************************************)
(* Model of seed_test_data.py: a sequential script that seeds a backend    *)
(* over HTTP.  The backend is the environment: every HTTP call draws its   *)
(* outcome (network failure, status, body) nondeterministically.           *)
(***************************************************************************)
EXTENDS Integers, Sequences, FiniteSets, TLC

(* ---- program constants ---- *)
NUsers == 5
EventsPerUser == 10
ListingCap == 20
MaxJoins == 4

(* ---- bounds of the model ---- *)
\* number of failed verify-email, event-creation and join calls the backend
\* may produce in one run (registrations fail freely: there are only NUsers)
MaxFaults == 2

(* ---- JSON values ---- *)
\* a key that is not in the mapping (dict.get gives None)
Absent == -1
\* a value that is present but falsy in Python ("" / 0 / null)
Empty == 0

Truthy(v) == v > 0

\* the token and the identifier the backend hands out for fixture user u
\* (u = 0: the admin account)
TokenFor(u) == 100 + u
IdFor(u) == 10 + u

Dict(tok, usr, id, err) ==
  [kind |-> "dict", token |-> tok, user |-> usr, id |-> id, err |-> err, items |-> <<>>]
List(items) ==
  [kind |-> "list", token |-> Absent, user |-> "absent", id |-> Absent, err |-> FALSE, items |-> items]

EmptyDict == Dict(Absent, "absent", Absent, FALSE)
ErrorPayload == Dict(Absent, "absent", Absent, TRUE)

Statuses == {200, 201, 401, 500}

NetworkFailure == [net |-> TRUE, status |-> 0, json |-> FALSE, body |-> EmptyDict]
HttpResp(s, isJson, b) == [net |-> FALSE, status |-> s, json |-> isJson, body |-> b]

\* what the backend can answer to a call whose JSON bodies range over bodies
Responses(bodies) ==
  {NetworkFailure}
    \cup {HttpResp(s, FALSE, EmptyDict) : s \in Statuses}
    \cup {HttpResp(s, TRUE, b) : s \in Statuses, b \in bodies}

Methods == {"GET", "POST", "PUT", "DELETE"}

(* ---- api_call ---- *)
ApiCallRaisesOnBadJson(method, resp) ==
  IF method \notin Methods
    THEN [raised |-> FALSE, sent |-> FALSE, status |-> 0, body |-> ErrorPayload]
  ELSE IF resp.net
    THEN [raised |-> FALSE, sent |-> TRUE, status |-> 0, body |-> ErrorPayload]
  ELSE IF resp.json
    THEN [raised |-> FALSE, sent |-> TRUE, status |-> resp.status, body |-> resp.body]
  ELSE [raised |-> TRUE, sent |-> TRUE, status |-> resp.status, body |-> EmptyDict]

ApiCall(method, resp) ==
  IF method \notin Methods
    THEN [raised |-> FALSE, sent |-> FALSE, status |-> 0, body |-> ErrorPayload]
  ELSE IF resp.net
    THEN [raised |-> FALSE, sent |-> TRUE, status |-> 0, body |-> ErrorPayload]
  ELSE IF resp.json
    THEN [raised |-> FALSE, sent |-> TRUE, status |-> resp.status, body |-> resp.body]
  ELSE [raised |-> FALSE, sent |-> TRUE, status |-> resp.status, body |-> EmptyDict]

VARIABLES
  pc,             \* position of main
  exitCode,       \* -1 while running, else the process exit status
  backendOk,      \* result of check_backend
  adminToken,     \* admin_token of main (Absent = None)
  tokens,         \* the username -> (token, user id) mapping, in insertion order
  i,              \* index of the user a loop is at
  j,              \* index of the event fixture create_events is at
  verified_count, \* verified_count of verify_users_manually
  verifiedLog,    \* <<verified, total>> logged by verify_users_manually
  total_created,  \* total_created of create_events
  event_count,    \* event_count of main
  reported,       \* the count print_summary printed (Absent before)
  event_ids,      \* event_ids of simulate_participation
  k,              \* index into event_ids of the inner join loop
  join_count,     \* join_count of simulate_participation
  faults,         \* failed items the backend produced so far
  issued,         \* kinds of HTTP call issued so far
  hist,           \* what the backend answered, counted per stage
  api,            \* one api_call in isolation: its inputs and its result
  fd,             \* one future_datetime call in isolation: clock, inputs, result
  reportedUsers,  \* the user count print_summary printed (Absent before)
  lastCall,       \* the HTTP call issued last: what it carried
  entered         \* the stages of main entered so far

vars == <<pc, exitCode, backendOk, adminToken, tokens, i, j, verified_count,
          verifiedLog, total_created, event_count, reported, event_ids, k,
          join_count, faults, issued, hist, api, fd, reportedUsers, lastCall,
          entered>>

mainVars == <<pc, exitCode, backendOk, adminToken, tokens, i, j, verified_count,
              verifiedLog, total_created, event_count, reported, event_ids, k,
              join_count, faults, issued, hist, reportedUsers, lastCall,
              entered>>

HistInit ==
  [probeOk |-> FALSE,      \* health answered 200 or fallback answered 200/401
   health |-> Absent,      \* status check_backend got from /health (0: no answer)
   fallback |-> Absent,    \* status check_backend got from /events (0: no answer)
   loginGood |-> FALSE,    \* login answered 200 with a non-empty token
   loginDone |-> FALSE,
   loginToken |-> Absent,  \* the token the admin login answered with
   regToken |-> [u \in 1..NUsers |-> Absent],  \* token answered to u's registration
   regId |-> [u \in 1..NUsers |-> Absent],     \* id answered to u's registration
   regGood |-> 0,          \* registrations answered 200/201 with token and id
   verifyCalls |-> 0, verify200 |-> 0,
   evCalls |-> 0, evOk |-> 0,
   okJoins |-> 0,          \* joins of the current user answered 200/201
   attempts |-> 0,         \* join calls of the current user
   examined |-> 0]         \* listing entries examined for the current user

(* ---- future_datetime ---- *)
\* largest day offset tried
MaxDays == 3

Hours == 0..23
DayOffsets == 0..MaxDays

\* readings of datetime.now(): day number, hour, and the parts below the hour
ClockReadings ==
  [day : {0}, hour : Hours, minute : {0, 30, 59}, second : {0, 59},
   micro : {0, 999999}]

\* replace(hour=hour) alone: the parts below the hour stay those of now()
FutureDatetimeKeepsMinutes(now, days, hour) ==
  LET future == [now EXCEPT !.day = now.day + days, !.hour = hour]
  IN [day |-> future.day, hour |-> future.hour,
      minute |-> future.minute, second |-> future.second]

\* now() + timedelta(days), replace(hour, 0, 0, 0), strftime down to the second
FutureDatetime(now, days, hour) ==
  LET shifted == [now EXCEPT !.day = now.day + days]
      future == [shifted EXCEPT !.hour = hour, !.minute = 0, !.second = 0,
                                !.micro = 0]
  IN [day |-> future.day, hour |-> future.hour,
      minute |-> future.minute, second |-> future.second]

FdIdle == [pc |-> "idle", now |-> [day |-> 0, hour |-> 0, minute |-> 0,
                                   second |-> 0, micro |-> 0],
           days |-> 0, hour |-> 0,
           out |-> [day |-> 0, hour |-> 0, minute |-> 0, second |-> 0]]

(* ---- what a call carries ---- *)
\* kind of call, fixture user it is made for (0: none), bearer token, user id
\* in the path, position in user_names of the name logged with it (0: none)
Call(kind, u, token, id, name) ==
  [kind |-> kind, u |-> u, token |-> token, id |-> id, name |-> name]
NoCall == Call("none", 0, Absent, Absent, 0)
Unauthenticated(kind) == Call(kind, 0, Absent, Absent, 0)

\* the token of the first entry, whoever the loop is at
CallTokenOfFirst(toks, idx) == toks[1].token
\* the token unpacked from the mapping entry the loop is at
CallToken(toks, idx) == toks[idx].token

\* user_names[i]: the first name of the fixture at that position of USERS
DisplayName(pos) == pos

\* "Total users created: 5"
SummaryUsers == 5

ApiIdle == [pc |-> "idle", method |-> "GET", resp |-> NetworkFailure,
            result |-> ApiCall("GET", NetworkFailure)]

MainInit ==
  /\ pc = "check_health"
  /\ exitCode = -1
  /\ backendOk = FALSE
  /\ adminToken = Absent
  /\ tokens = <<>>
  /\ i = 0
  /\ j = 0
  /\ verified_count = 0
  /\ verifiedLog = <<Absent, Absent>>
  /\ total_created = 0
  /\ event_count = Absent
  /\ reported = Absent
  /\ event_ids = <<>>
  /\ k = 0
  /\ join_count = 0
  /\ faults = 0
  /\ issued = {}
  /\ hist = HistInit
  /\ reportedUsers = Absent
  /\ lastCall = NoCall
  /\ entered = {}

Init == MainInit /\ api = ApiIdle /\ fd = FdIdle

\* an uncaught Python exception ends the process with status 1
Crash ==
  /\ pc' = "crashed"
  /\ exitCode' = 1

\* sys.exit(1)
Exit1 ==
  /\ pc' = "exited"
  /\ exitCode' = 1

\* a failed item is drawn only while the budget of faults lasts
Budget(ok) == ok \/ faults < MaxFaults
Charge(ok) == faults' = IF ok THEN faults ELSE faults + 1

(* ---- check_backend ---- *)
HealthOk(resp) == ~resp.net /\ resp.status = 200
FallbackOn200Only(resp) == ~resp.net /\ resp.status = 200
FallbackOk(resp) == ~resp.net /\ resp.status \in {200, 401}

(* ---- main: the two abort points ---- *)
ProceedAlways(ok) == TRUE
ProceedAfterProbe(ok) == ok

ProceedWithAnyToken(tok) == TRUE
ProceedAfterLogin(tok) == Truthy(tok)

(* ---- get_admin_token ---- *)
\* body.get on a JSON value that is no mapping raises AttributeError
AdminLoginRaises(res) == res.status = 200 /\ res.body.kind # "dict"
AdminTokenOf(res) ==
  IF res.status = 200 /\ Truthy(res.body.token) THEN res.body.token ELSE Absent

(* ---- availability probe and admin login ---- *)
ProbeBodies == {EmptyDict, List(<<>>)}

CheckHealth ==
  /\ pc = "check_health"
  /\ \E resp \in Responses(ProbeBodies) :
       /\ issued' = issued \cup {"health"}
       /\ hist' = [hist EXCEPT !.probeOk = (~resp.net /\ resp.status = 200),
                               !.health = resp.status]
       /\ IF HealthOk(resp)
            THEN backendOk' = TRUE /\ pc' = "main_probed"
            ELSE backendOk' = backendOk /\ pc' = "check_fallback"
  /\ UNCHANGED <<exitCode, adminToken, tokens, i, j, verified_count, verifiedLog,
                 total_created, event_count, reported, event_ids, k, join_count,
                 faults, api, fd,
                 reportedUsers>>
  /\ lastCall' = Unauthenticated("health")
  /\ entered' = entered \cup {"probe"}

CheckFallback ==
  /\ pc = "check_fallback"
  /\ \E resp \in Responses(ProbeBodies) :
       /\ issued' = issued \cup {"fallback"}
       /\ hist' = [hist EXCEPT !.probeOk = (~resp.net /\ resp.status \in {200, 401}),
                               !.fallback = resp.status]
       /\ backendOk' = FallbackOk(resp)
       /\ pc' = "main_probed"
  /\ UNCHANGED <<exitCode, adminToken, tokens, i, j, verified_count, verifiedLog,
                 total_created, event_count, reported, event_ids, k, join_count,
                 faults, api, fd,
                 reportedUsers, entered>>
  /\ lastCall' = Unauthenticated("fallback")

MainCheckBackend ==
  /\ pc = "main_probed"
  /\ IF ProceedAfterProbe(backendOk)
       THEN pc' = "admin_login" /\ exitCode' = exitCode
       ELSE Exit1
  /\ hist' = [hist EXCEPT !.health = Absent, !.fallback = Absent]
  /\ UNCHANGED <<backendOk, adminToken, tokens, i, j, verified_count, verifiedLog,
                 total_created, event_count, reported, event_ids, k, join_count,
                 faults, issued, api, fd,
                 reportedUsers, lastCall, entered>>

LoginBodies ==
  {Dict(t, "absent", Absent, FALSE) : t \in {Absent, Empty, TokenFor(0)}}
    \cup {List(<<>>)}

GetAdminToken ==
  /\ pc = "admin_login"
  /\ \E resp \in Responses(LoginBodies) :
       LET res == ApiCall("POST", resp) IN
       /\ issued' = issued \cup {"login"}
       /\ hist' = [hist EXCEPT
            !.loginDone = TRUE,
            !.loginToken = IF ~resp.net /\ resp.status = 200 /\ resp.json
                             THEN resp.body.token ELSE Absent,
            !.loginGood = (~resp.net /\ resp.status = 200 /\ resp.json
                           /\ resp.body.kind = "dict" /\ resp.body.token > 0)]
       /\ IF AdminLoginRaises(res)
            THEN Crash /\ adminToken' = adminToken
            ELSE /\ adminToken' = AdminTokenOf(res)
                 /\ pc' = "main_logged_in"
                 /\ exitCode' = exitCode
  /\ UNCHANGED <<backendOk, tokens, i, j, verified_count, verifiedLog,
                 total_created, event_count, reported, event_ids, k, join_count,
                 faults, api, fd,
                 reportedUsers>>
  /\ lastCall' = Unauthenticated("login")
  /\ entered' = entered \cup {"login"}

MainCheckAdmin ==
  /\ pc = "main_logged_in"
  /\ IF ProceedAfterLogin(adminToken)
       THEN /\ pc' = "register" /\ i' = 1 /\ exitCode' = exitCode
            /\ entered' = entered \cup {"users"}
       ELSE Exit1 /\ i' = i /\ entered' = entered
  /\ UNCHANGED <<backendOk, adminToken, tokens, j, verified_count, verifiedLog,
                 total_created, event_count, reported, event_ids, k, join_count,
                 faults, issued, hist, api, fd,
                 reportedUsers, lastCall>>

(* ---- create_users ---- *)
RegisterBodies(u) ==
  {Dict(t, "dict", id, FALSE) : t \in {Absent, Empty, TokenFor(u)},
                                id \in {Absent, Empty, IdFor(u)}}
    \cup {Dict(t, usr, Absent, FALSE) : t \in {Absent, TokenFor(u)},
                                        usr \in {"absent", "null"}}
    \cup {List(<<>>)}

\* body.get / user_data.get on a JSON value that is no mapping raises
RegisterRaises(res) ==
  /\ res.status \in {200, 201}
  /\ \/ res.body.kind # "dict"
     \/ res.body.user = "null"

RegisterAddsOn200Only(res) ==
  /\ res.status = 200
  /\ Truthy(res.body.token)
  /\ Truthy(res.body.id)

RegisterAdds(res) ==
  /\ res.status \in {200, 201}
  /\ Truthy(res.body.token)
  /\ Truthy(res.body.id)

\* the registration answer has status 200/201 and carries a token and an id
RegistrationGood(resp) ==
  /\ ~resp.net
  /\ resp.status \in {200, 201}
  /\ resp.json
  /\ resp.body.kind = "dict"
  /\ resp.body.token > 0
  /\ resp.body.user = "dict"
  /\ resp.body.id > 0

\* end of one iteration of "for user in USERS"
NextFixture ==
  IF i < NUsers
    THEN pc' = "register" /\ i' = i + 1
    ELSE pc' = "verify_enter" /\ i' = 0

RegisterUser ==
  /\ pc = "register"
  /\ \E resp \in Responses(RegisterBodies(i)) :
       LET res == ApiCall("POST", resp) IN
       /\ issued' = issued \cup {"register"}
       /\ hist' = [hist EXCEPT
            !.regGood = @ + IF RegistrationGood(resp) THEN 1 ELSE 0,
            !.regToken[i] = IF RegistrationGood(resp) THEN resp.body.token ELSE Absent,
            !.regId[i] = IF RegistrationGood(resp) THEN resp.body.id ELSE Absent]
       /\ IF RegisterRaises(res)
            THEN Crash /\ UNCHANGED <<tokens, i>>
            ELSE /\ exitCode' = exitCode
                 /\ IF RegisterAdds(res)
                      THEN /\ tokens' = Append(tokens,
                                  [u |-> i, token |-> res.body.token, id |-> res.body.id])
                           /\ pc' = "profile_put"
                           /\ i' = i
                      ELSE /\ tokens' = tokens
                           /\ NextFixture
  /\ UNCHANGED <<backendOk, adminToken, j, verified_count, verifiedLog,
                 total_created, event_count, reported, event_ids, k, join_count,
                 faults, api, fd, reportedUsers, entered>>
  /\ lastCall' = Call("register", i, Absent, Absent, 0)

UpdateProfile ==
  /\ pc = "profile_put"
  /\ \E resp \in Responses({EmptyDict}) :
       /\ issued' = issued \cup {"profile_put"}
       /\ NextFixture
  /\ UNCHANGED <<exitCode, backendOk, adminToken, tokens, j, verified_count,
                 verifiedLog, total_created, event_count, reported, event_ids, k,
                 join_count, faults, hist, api, fd,
                 reportedUsers, entered>>
  /\ lastCall' = Call("profile_put", tokens[Len(tokens)].u, CallToken(tokens, Len(tokens)), Absent, 0)

(* ---- verify_users_manually ---- *)
VerifyEnter ==
  /\ pc = "verify_enter"
  /\ IF tokens = <<>> \/ ~Truthy(adminToken)
       THEN pc' = "events_enter" /\ i' = 0
       ELSE pc' = "verify" /\ i' = 1
  /\ verified_count' = 0
  /\ UNCHANGED <<exitCode, backendOk, adminToken, tokens, j, verifiedLog,
                 total_created, event_count, reported, event_ids, k, join_count,
                 faults, issued, hist, api, fd,
                 reportedUsers, lastCall>>
  /\ entered' = entered \cup {"verify"}

VerifiedAlways(status) == TRUE
Verified(status) == status = 200

VerifyUser ==
  /\ pc = "verify"
  /\ \E resp \in Responses({EmptyDict}) :
       LET res == ApiCall("PUT", resp) IN
       /\ Budget(Verified(res.status))
       /\ Charge(Verified(res.status))
       /\ issued' = issued \cup {"verify"}
       /\ hist' = [hist EXCEPT
            !.verifyCalls = @ + 1,
            !.verify200 = @ + IF ~resp.net /\ resp.status = 200 THEN 1 ELSE 0]
       /\ verified_count' = IF Verified(res.status)
                              THEN verified_count + 1 ELSE verified_count
  /\ IF i < Len(tokens)
       THEN pc' = "verify" /\ i' = i + 1
       ELSE pc' = "verify_done" /\ i' = 0
  /\ UNCHANGED <<exitCode, backendOk, adminToken, tokens, j, verifiedLog,
                 total_created, event_count, reported, event_ids, k, join_count, api, fd,
                 reportedUsers, entered>>
  /\ lastCall' = Call("verify", tokens[i].u, adminToken, tokens[i].id, 0)

VerifyReturn ==
  /\ pc = "verify_done"
  /\ verifiedLog' = <<verified_count, Len(tokens)>>
  /\ pc' = "events_enter"
  /\ UNCHANGED <<exitCode, backendOk, adminToken, tokens, i, j, verified_count,
                 total_created, event_count, reported, event_ids, k, join_count,
                 faults, issued, hist, api, fd,
                 reportedUsers, lastCall, entered>>

(* ---- create_events ---- *)
CreateEventsEnter ==
  /\ pc = "events_enter"
  /\ total_created' = 0
  /\ IF tokens = <<>>
       THEN pc' = "events_done" /\ i' = 0 /\ j' = 0
       ELSE pc' = "create_event" /\ i' = 1 /\ j' = 1
  /\ UNCHANGED <<exitCode, backendOk, adminToken, tokens, verified_count,
                 verifiedLog, event_count, reported, event_ids, k, join_count,
                 faults, issued, hist, api, fd,
                 reportedUsers, lastCall>>
  /\ entered' = entered \cup {"events"}

CreatedOn201Only(status) == status = 201
Created(status) == status \in {200, 201}

CreateEvent ==
  /\ pc = "create_event"
  /\ \E resp \in Responses({EmptyDict}) :
       LET res == ApiCall("POST", resp) IN
       /\ Budget(Created(res.status))
       /\ Charge(Created(res.status))
       /\ issued' = issued \cup {"create_event"}
       /\ hist' = [hist EXCEPT
            !.evCalls = @ + 1,
            !.evOk = @ + IF ~resp.net /\ resp.status \in {200, 201} THEN 1 ELSE 0]
       /\ total_created' = IF Created(res.status)
                             THEN total_created + 1 ELSE total_created
  /\ IF j < EventsPerUser
       THEN pc' = "create_event" /\ i' = i /\ j' = j + 1
       ELSE IF i < Len(tokens)
         THEN pc' = "create_event" /\ i' = i + 1 /\ j' = 1
         ELSE pc' = "events_done" /\ i' = 0 /\ j' = 0
  /\ UNCHANGED <<exitCode, backendOk, adminToken, tokens, verified_count,
                 verifiedLog, event_count, reported, event_ids, k, join_count, api, fd,
                 reportedUsers, entered>>
  /\ lastCall' = Call("create_event", tokens[i].u, CallToken(tokens, i), Absent, 0)

CreateEventsReturn ==
  /\ pc = "events_done"
  /\ event_count' = total_created
  /\ pc' = "fetch_events"
  /\ UNCHANGED <<exitCode, backendOk, adminToken, tokens, i, j, verified_count,
                 verifiedLog, total_created, reported, event_ids, k, join_count,
                 faults, issued, hist, api, fd,
                 reportedUsers, lastCall, entered>>

(* ---- simulate_participation ---- *)
EventIdAt(p) == 1000 + p
Listing(n) == [p \in 1..n |-> EventIdAt(p)]

\* lengths of the listings the backend answers with
ListingLens == {0, 1, 3, ListingCap, ListingCap + 1}

\* a listing is the sequence of its entries' ids; Absent: an entry without "id"
ListingBodies ==
  {List(Listing(n)) : n \in ListingLens}
    \cup {List(<<EventIdAt(1), Absent>>)}
    \cup {List([p \in 1..(ListingCap + 1) |->
                  IF p = ListingCap + 1 THEN Absent ELSE EventIdAt(p)])}
    \cup {EmptyDict}

\* body[:20]
FirstEvents(items) ==
  SubSeq(items, 1, IF Len(items) < ListingCap THEN Len(items) ELSE ListingCap)

ListingUsable(res) == res.status = 200 /\ res.body.kind = "list"

\* event['id'] on an entry without that key raises KeyError
EventIdsRaises(res) ==
  \E p \in 1..Len(FirstEvents(res.body.items)) : res.body.items[p] = Absent

EventIds(res) == FirstEvents(res.body.items)

FetchEvents ==
  /\ pc = "fetch_events"
  /\ \E resp \in Responses(ListingBodies) :
       LET res == ApiCall("GET", resp) IN
       /\ issued' = issued \cup {"list"}
       /\ IF ~ListingUsable(res)
            THEN /\ pc' = "profiles_enter"
                 /\ UNCHANGED <<exitCode, event_ids, i>>
            ELSE IF EventIdsRaises(res)
              THEN Crash /\ UNCHANGED <<event_ids, i>>
              ELSE /\ event_ids' = EventIds(res)
                   /\ exitCode' = exitCode
                   /\ IF tokens = <<>>
                        THEN pc' = "profiles_enter" /\ i' = i
                        ELSE pc' = "join_user" /\ i' = 1
  /\ UNCHANGED <<backendOk, adminToken, tokens, j, verified_count, verifiedLog,
                 total_created, event_count, reported, k, join_count, faults,
                 hist, api, fd,
                 reportedUsers>>
  /\ lastCall' = Unauthenticated("list")
  /\ entered' = entered \cup {"participation"}

\* top of the body of "for i, (username, (token, user_id)) in enumerate(...)"
StartParticipant ==
  /\ pc = "join_user"
  /\ join_count' = 0
  /\ hist' = [hist EXCEPT !.okJoins = 0, !.attempts = 0, !.examined = 0]
  /\ IF event_ids = <<>>
       THEN pc' = "join_user_done" /\ k' = 0
       ELSE pc' = "join" /\ k' = 1
  /\ UNCHANGED <<exitCode, backendOk, adminToken, tokens, i, j, verified_count,
                 verifiedLog, total_created, event_count, reported, event_ids,
                 faults, issued, api, fd,
                 reportedUsers, lastCall, entered>>

JoinedOn201Only(status) == status = 201
Joined(status) == status \in {200, 201}

JoinAllowed(want, count) == want /\ count < MaxJoins

LoopBreaks(count) == count >= MaxJoins

\* the entry the inner loop examines after entry idx
RetryFailedEntry(idx, attempted, ok) == IF attempted /\ ~ok THEN idx ELSE idx + 1
NextEntry(idx, attempted, ok) == idx + 1

JoinStep ==
  /\ pc = "join"
  /\ \E want \in BOOLEAN, resp \in Responses({EmptyDict}) :
       LET res == ApiCall("POST", resp)
           attempted == JoinAllowed(want, join_count)
           ok == attempted /\ Joined(res.status)
           count == IF ok THEN join_count + 1 ELSE join_count
           next == NextEntry(k, attempted, ok)
       IN
       /\ ~attempted => resp = NetworkFailure
       /\ Budget(~attempted \/ ok)
       /\ Charge(~attempted \/ ok)
       /\ issued' = IF attempted THEN issued \cup {"join"} ELSE issued
       /\ lastCall' = IF attempted
                        THEN Call("join", tokens[i].u, CallToken(tokens, i), Absent,
                                  DisplayName(i))
                        ELSE lastCall
       /\ hist' = [hist EXCEPT
            !.examined = k,
            !.attempts = @ + IF attempted THEN 1 ELSE 0,
            !.okJoins = @ + IF attempted /\ ~resp.net /\ resp.status \in {200, 201}
                              THEN 1 ELSE 0]
       /\ join_count' = count
       /\ IF LoopBreaks(count) \/ next > Len(event_ids)
            THEN pc' = "join_user_done" /\ k' = 0
            ELSE pc' = "join" /\ k' = next
  /\ UNCHANGED <<exitCode, backendOk, adminToken, tokens, i, j, verified_count,
                 verifiedLog, total_created, event_count, reported, event_ids, api, fd,
                 reportedUsers, entered>>

ParticipantDone ==
  /\ pc = "join_user_done"
  /\ IF i < Len(tokens)
       THEN pc' = "join_user" /\ i' = i + 1
       ELSE pc' = "profiles_enter" /\ i' = 0
  /\ UNCHANGED <<exitCode, backendOk, adminToken, tokens, j, verified_count,
                 verifiedLog, total_created, event_count, reported, event_ids, k,
                 join_count, faults, issued, hist, api, fd,
                 reportedUsers, lastCall, entered>>

(* ---- test_profiles, test_filters, print_summary ---- *)
TestProfilesEnter ==
  /\ pc = "profiles_enter"
  /\ IF tokens = <<>>
       THEN pc' = "filter_category" /\ i' = 0
       ELSE pc' = "get_profile" /\ i' = 1
  /\ UNCHANGED <<exitCode, backendOk, adminToken, tokens, j, verified_count,
                 verifiedLog, total_created, event_count, reported, event_ids, k,
                 join_count, faults, issued, hist, api, fd,
                 reportedUsers, lastCall>>
  /\ entered' = entered \cup {"profiles"}

GetProfile ==
  /\ pc = "get_profile"
  /\ \E resp \in Responses({EmptyDict}) :
       issued' = issued \cup {"profile_get"}
  /\ IF i < Len(tokens)
       THEN pc' = "get_profile" /\ i' = i + 1
       ELSE pc' = "filter_category" /\ i' = 0
  /\ UNCHANGED <<exitCode, backendOk, adminToken, tokens, j, verified_count,
                 verifiedLog, total_created, event_count, reported, event_ids, k,
                 join_count, faults, hist, api, fd,
                 reportedUsers, entered>>
  /\ lastCall' = Call("profile_get", tokens[i].u, CallToken(tokens, i), Absent, DisplayName(i))

AfterFilter(at) ==
  CASE at = "filter_category" -> "filter_gender"
    [] at = "filter_gender" -> "filter_age"
    [] at = "filter_age" -> "summary"

TestFilter ==
  /\ pc \in {"filter_category", "filter_gender", "filter_age"}
  /\ \E resp \in Responses({EmptyDict, List(<<>>)}) :
       issued' = issued \cup {"filter"}
  /\ pc' = AfterFilter(pc)
  /\ UNCHANGED <<exitCode, backendOk, adminToken, tokens, i, j, verified_count,
                 verifiedLog, total_created, event_count, reported, event_ids, k,
                 join_count, faults, hist, api, fd,
                 reportedUsers>>
  /\ lastCall' = Unauthenticated("filter")
  /\ entered' = entered \cup {"filters"}

\* print_summary, then main returns: exit status 0
PrintSummary ==
  /\ pc = "summary"
  /\ reported' = event_count
  /\ pc' = "done"
  /\ exitCode' = 0
  /\ UNCHANGED <<backendOk, adminToken, tokens, i, j, verified_count, verifiedLog,
                 total_created, event_count, event_ids, k, join_count, faults,
                 issued, hist, api, fd,
                 lastCall>>
  /\ reportedUsers' = SummaryUsers
  /\ entered' = entered \cup {"summary"}

Next ==
  \/ CheckHealth
  \/ CheckFallback
  \/ MainCheckBackend
  \/ GetAdminToken
  \/ MainCheckAdmin
  \/ RegisterUser
  \/ UpdateProfile
  \/ VerifyEnter
  \/ VerifyUser
  \/ VerifyReturn
  \/ CreateEventsEnter
  \/ CreateEvent
  \/ CreateEventsReturn
  \/ FetchEvents
  \/ StartParticipant
  \/ JoinStep
  \/ ParticipantDone
  \/ TestProfilesEnter
  \/ GetProfile
  \/ TestFilter
  \/ PrintSummary

Spec == Init /\ [][Next]_vars

(* ---- api_call on its own: any method, any answer of the backend ---- *)
ApiBodies ==
  {EmptyDict, List(<<>>), List(Listing(1)), Dict(TokenFor(0), "dict", IdFor(0), FALSE)}

InitApi ==
  /\ MainInit
  /\ api \in {[pc |-> "call", method |-> m, resp |-> r, result |-> ApiIdle.result] :
                m \in Methods \cup {"PATCH"}, r \in Responses(ApiBodies)}
  /\ fd = FdIdle

ApiCallStep ==
  /\ api.pc = "call"
  /\ api' = [api EXCEPT !.pc = "returned", !.result = ApiCall(api.method, api.resp)]
  /\ UNCHANGED <<mainVars, fd>>

NextApi == ApiCallStep

SpecApi == InitApi /\ [][NextApi]_vars

(* ---- future_datetime on its own: any clock reading, offset and hour ---- *)
InitTime ==
  /\ MainInit
  /\ api = ApiIdle
  /\ fd \in {[pc |-> "call", now |-> t, days |-> d, hour |-> h, out |-> FdIdle.out] :
               t \in ClockReadings, d \in DayOffsets, h \in Hours}

FutureDatetimeStep ==
  /\ fd.pc = "call"
  /\ fd' = [fd EXCEPT !.pc = "returned",
                      !.out = FutureDatetime(fd.now, fd.days, fd.hour)]
  /\ UNCHANGED <<mainVars, api>>

NextTime == FutureDatetimeStep

SpecTime == InitTime /\ [][NextTime]_vars

(***************************************************************************)
(* Properties                                                              *)
(***************************************************************************)
ProvisioningKinds ==
  {"register", "profile_put", "verify", "create_event", "list", "join",
   "profile_get", "filter"}

\* C1: when check_backend returns false the run does nothing but exit with
\* status 1: no admin login and no provisioning call has been issued.
C1_ProbeFailedExits ==
  (pc \notin {"check_health", "check_fallback"} /\ ~backendOk) =>
    /\ issued \subseteq {"health", "fallback"}
    /\ pc \in {"main_probed", "exited"}
    /\ pc = "exited" => exitCode = 1

C1_Witness ==
  /\ pc = "exited"
  /\ ~backendOk
  /\ issued = {"health", "fallback"}

\* C2: when the admin login did not answer 200 with a token, the run ends with
\* status 1 right after the login stage and no registration or later call has
\* been issued.
C2_LoginFailedExits ==
  (hist.loginDone /\ ~hist.loginGood) =>
    /\ issued \cap ProvisioningKinds = {}
    /\ pc \in {"main_logged_in", "exited", "crashed"}
    /\ pc # "main_logged_in" => exitCode = 1

C2_Witness ==
  /\ pc = "exited"
  /\ backendOk
  /\ hist.loginDone
  /\ ~hist.loginGood

\* C3: a run whose probe succeeded and whose admin login gave a token ends
\* with exit status 0 whatever the backend answers to the later calls.
C3_AlwaysExitsZero ==
  (backendOk /\ hist.loginGood /\ exitCode # -1) => exitCode = 0

\* C4: the mapping holds exactly the fixtures whose registration answered
\* 200/201 with a token and an identifier, one entry each, in fixture order;
\* nothing later (a failed profile update included) removes an entry.
C4_MappingSize ==
  /\ Len(tokens) = hist.regGood
  /\ \A a, b \in 1..Len(tokens) : a < b => tokens[a].u < tokens[b].u

C4_Witness ==
  /\ pc = "verify_enter"
  /\ Len(tokens) = NUsers - 2
  /\ "profile_put" \in issued

\* C5: the verified count never exceeds the number of provisioned users, and
\* verify_users_manually ends with the two equal only when every verify-email
\* call (one per provisioned user) answered 200.
C5_VerifiedCount ==
  /\ verified_count <= Len(tokens)
  /\ (pc = "verify_done" /\ verified_count = Len(tokens)) =>
       /\ hist.verifyCalls = Len(tokens)
       /\ hist.verify200 = hist.verifyCalls

C5_Witness ==
  /\ pc = "verify_done"
  /\ Len(tokens) = NUsers
  /\ verified_count = Len(tokens)

\* C6: for every user at most 4 joins succeed and at most the first 20 entries
\* of the listing are examined.
C6_JoinsAndCandidatesCapped ==
  /\ hist.okJoins <= MaxJoins
  /\ hist.examined <= ListingCap
  /\ Len(event_ids) <= ListingCap

C6_Witness ==
  /\ pc = "join_user_done"
  /\ hist.okJoins = MaxJoins
  /\ hist.examined = ListingCap

\* C7 as stated: a user makes at most four join calls, failed ones included,
\* and at most one per listing entry.
C7_AtMostFourAttempts ==
  /\ hist.attempts <= MaxJoins
  /\ hist.attempts <= hist.examined

\* C7 amended: a user makes at most one join call per examined listing entry
\* (at most 20, failed ones included), and at most four of them succeed.
C7_AttemptsPerEntry ==
  /\ hist.attempts <= hist.examined
  /\ hist.examined <= ListingCap
  /\ hist.okJoins <= MaxJoins
  /\ hist.okJoins <= hist.attempts

C7_Witness ==
  /\ pc = "join_user_done"
  /\ hist.okJoins = MaxJoins
  /\ hist.attempts > MaxJoins

\* C8: create_events makes exactly one creation call per fixture event of
\* every provisioned user, in order, whatever the earlier calls answered, and
\* returns the number of calls answered 200/201.
C8_CreatedCount ==
  /\ total_created = hist.evOk
  /\ pc = "create_event" => hist.evCalls = EventsPerUser * (i - 1) + (j - 1)
  /\ pc = "events_done" => hist.evCalls = EventsPerUser * Len(tokens)
  /\ event_count # Absent => event_count = hist.evOk

C8_Witness ==
  /\ pc = "events_done"
  /\ Len(tokens) >= 2
  /\ total_created > 0
  /\ total_created < hist.evCalls

\* C9: a run in which the probe, the admin login, all 5 registrations, all 5
\* verify-email calls and all 50 creation calls succeed reports 50 created
\* events and 5/5 verified users and exits 0.
C9_FullSuccessReport ==
  ( /\ exitCode # -1
    /\ backendOk
    /\ hist.loginGood
    /\ hist.regGood = NUsers
    /\ hist.verify200 = NUsers
    /\ hist.evOk = NUsers * EventsPerUser ) =>
    /\ exitCode = 0
    /\ reported = NUsers * EventsPerUser
    /\ verifiedLog = <<NUsers, NUsers>>

\* C10: api_call never raises; it answers (0, error payload) to a network
\* failure and, without sending anything, to an unsupported method; (status,
\* empty mapping) to a body that is not JSON; (status, parsed body) otherwise.
C10_ApiCallTotal ==
  api.pc = "returned" =>
    LET r == api.result IN
    /\ ~r.raised
    /\ api.method \notin Methods =>
         ~r.sent /\ r.status = 0 /\ r.body = ErrorPayload
    /\ api.method \in Methods =>
         /\ r.sent
         /\ api.resp.net => r.status = 0 /\ r.body = ErrorPayload
         /\ (~api.resp.net /\ ~api.resp.json) =>
              r.status = api.resp.status /\ r.body = EmptyDict
         /\ (~api.resp.net /\ api.resp.json) =>
              r.status = api.resp.status /\ r.body = api.resp.body

C10_Witness ==
  /\ api.pc = "returned"
  /\ api.method = "DELETE"
  /\ ~api.resp.net
  /\ ~api.resp.json
  /\ api.resp.status = 500

\* C11: check_backend returns true exactly when /health answered 200 or,
\* /health having failed or answered anything else, the fallback GET on
\* /events answered 200 or 401; the fallback is called only after /health did
\* not answer 200.
C11_ProbeResult ==
  /\ pc = "check_fallback" => (hist.health # 200 /\ hist.fallback = Absent)
  /\ pc = "main_probed" =>
       /\ hist.health # Absent
       /\ hist.fallback # Absent => hist.health # 200
       /\ hist.health # 200 => hist.fallback # Absent
       /\ backendOk <=> (hist.health = 200 \/ hist.fallback \in {200, 401})

C11_Witness ==
  /\ pc = "main_probed"
  /\ hist.health = 0
  /\ hist.fallback = 401
  /\ backendOk

\* seconds since day 0, 00:00:00
SecondsOf(t) == ((t.day * 24 + t.hour) * 60 + t.minute) * 60 + t.second

\* the timestamp (no part below the second) is later than the clock reading
StrictlyAfter(out, now) == SecondsOf(out) > SecondsOf(now)

C13_SummaryAccurate ==
  pc = "done" =>
    /\ reported = hist.evOk
    /\ reportedUsers = Len(tokens)

AuthenticatedAsUser == {"profile_put", "create_event", "join", "profile_get"}

\* C14: a call made for a user carries the token the backend answered to that
\* user's registration; a verify-email call carries the token the admin login
\* answered with and the identifier answered to that user's registration.
C14_TokensExist ==
  /\ lastCall.kind \in AuthenticatedAsUser =>
       /\ lastCall.u \in 1..NUsers
       /\ Truthy(lastCall.token)
       /\ lastCall.token = hist.regToken[lastCall.u]
  /\ lastCall.kind = "verify" =>
       /\ lastCall.u \in 1..NUsers
       /\ Truthy(lastCall.token)
       /\ lastCall.token = hist.loginToken
       /\ Truthy(lastCall.id)
       /\ lastCall.id = hist.regId[lastCall.u]

C14_Witness ==
  /\ lastCall.kind = "join"
  /\ lastCall.u = NUsers
  /\ Len(tokens) = 2
  /\ "verify" \in issued

\* position of a kind of call in the order of the stages
Rank(kind) ==
  CASE kind = "none" -> 0
    [] kind = "health" -> 1
    [] kind = "fallback" -> 2
    [] kind = "login" -> 3
    [] kind \in {"register", "profile_put"} -> 4
    [] kind = "verify" -> 5
    [] kind = "create_event" -> 6
    [] kind = "list" -> 7
    [] kind = "join" -> 8
    [] kind = "profile_get" -> 9
    [] kind = "filter" -> 10

\* no call of a later stage was issued before the call issued last
CallsInStageOrder ==
  \A kd \in issued : Rank(kd) <= Rank(lastCall.kind)

\* a profile update is the call right after the registration of the same user
ProfileUpdateFollowsRegistration ==
  /\ pc = "profile_put" =>
       /\ lastCall.kind = "register"
       /\ lastCall.u = tokens[Len(tokens)].u
  /\ lastCall.kind = "profile_put" =>
       /\ lastCall.u = tokens[Len(tokens)].u
       /\ pc = "register" => i = lastCall.u + 1

AllStages ==
  {"probe", "login", "users", "verify", "events", "participation", "profiles",
   "filters", "summary"}

\* C15: in a run that passed both abort points the calls are issued in the
\* order of the stages, each profile update right after its registration, and
\* the run enters every stage whatever the earlier stages achieved.
C15_StagesInOrderAndEntered ==
  /\ CallsInStageOrder
  /\ ProfileUpdateFollowsRegistration
  /\ (exitCode # -1 /\ backendOk /\ Truthy(adminToken)) => entered = AllStages

\* C16: the name logged with a join or a profile read (user_names at the loop
\* position) is the name of the fixture user whose token makes the call.
C16_NameMatchesUser ==
  lastCall.kind \in {"join", "profile_get"} => lastCall.name = lastCall.u

====
